---- MODULE Spec2Model ----
(***************************************************************************)
(* Snake game (HomePage component): the step engine stepGame, the food     *)
(* spawner spawnFood, the direction resolver resolveDirectionInput, the    *)
(* anti-reversal guard applyInputDirection, and the event handlers of the  *)
(* component (timer tick, keydown, Start / Pause / Restart buttons).       *)
(*                                                                         *)
(* Every handler runs to completion on the single browser event queue, so  *)
(* each handler, together with the render and the effects it triggers, is  *)
(* one atomic action.                                                      *)
(***************************************************************************)
EXTENDS Integers, Sequences, FiniteSets

\* The board is GRID_SIZE x GRID_SIZE.  The source sets 24; the model is
\* checked on a smaller board (4 is the least size on which
\* createInitialSnake stays on the board).
GRID_SIZE == 4

\* Ticks that would grow the snake beyond MaxLen cells are not explored.
MaxLen == 5

\* The best score found in localStorage at startup is at most MaxStoredBest.
MaxStoredBest == 1

\* The scores the speed scaling is evaluated on are at most MaxScoreArg.
MaxScoreArg == 60

\* Program constants of the speed scaling.
BASE_TICK_MS == 150
MIN_TICK_MS == 80
SPEEDUP_EVERY_POINTS == 5
SPEEDUP_STEP_MS == 8

VARIABLES
    snake,                 \* useState<Point[]>: head first
    direction,             \* useState<Direction>
    food,                  \* useState<Point>
    score,                 \* useState(0)
    bestScore,             \* useState(0)
    isStarted,             \* useState(false)
    isPaused,              \* useState(false)
    isGameOver,            \* useState(false)
    directionRef,          \* useRef<Direction>: the committed heading
    pendingDirectionRef,   \* useRef<Direction | null>: the queued heading
    tickMs                 \* useMemo(() => getNextTick(score), [score])

vars == <<snake, direction, food, score, bestScore, isStarted, isPaused,
          isGameOver, directionRef, pendingDirectionRef, tickMs>>

----------------------------------------------------------------------------
\* Types and lookup tables

Direction == {"up", "right", "down", "left"}

null == "null"

Point(px, py) == [x |-> px, y |-> py]

DIRECTION_VECTORS ==
    [d \in Direction |->
        CASE d = "up"    -> Point(0, -1)
          [] d = "right" -> Point(1, 0)
          [] d = "down"  -> Point(0, 1)
          [] d = "left"  -> Point(-1, 0)]

\* Mutant of LEFT_TURN: the entry of "up" is wrong.
LEFT_TURN_wrongUp ==
    [d \in Direction |->
        CASE d = "up"    -> "down"
          [] d = "left"  -> "down"
          [] d = "down"  -> "right"
          [] d = "right" -> "up"]

LEFT_TURN ==
    [d \in Direction |->
        CASE d = "up"    -> "left"
          [] d = "left"  -> "down"
          [] d = "down"  -> "right"
          [] d = "right" -> "up"]

RIGHT_TURN ==
    [d \in Direction |->
        CASE d = "up"    -> "right"
          [] d = "right" -> "down"
          [] d = "down"  -> "left"
          [] d = "left"  -> "up"]

OPPOSITE_DIRECTION ==
    [d \in Direction |->
        CASE d = "up"    -> "down"
          [] d = "down"  -> "up"
          [] d = "left"  -> "right"
          [] d = "right" -> "left"]

\* The cells the double loop of spawnFood enumerates.
GridCells == {Point(px, py) : px \in 0..(GRID_SIZE - 1), py \in 0..(GRID_SIZE - 1)}

\* The set of cells of a body (new Set(snake.map(pointKey))).
Occupied(body) == {body[i] : i \in 1..Len(body)}

----------------------------------------------------------------------------
\* Pure functions

createInitialSnake ==
    LET center == GRID_SIZE \div 2
    IN  <<Point(center, center), Point(center - 1, center), Point(center - 2, center)>>

\* Mutant of spawnFood: the head is left out of the occupied set.
spawnFood_ignoresHead(body) ==
    LET emptyCells == GridCells \ Occupied(Tail(body))
    IN  IF emptyCells = {} THEN {body[1]} ELSE emptyCells

\* Mutant of spawnFood: occupied cells are not filtered out.
spawnFood_anyCell(body) == GridCells

\* Mutant of spawnFood: with no empty cell left the tail cell is returned.
spawnFood_fallsBackToTail(body) ==
    LET emptyCells == GridCells \ Occupied(body)
    IN  IF emptyCells = {} THEN {body[Len(body)]} ELSE emptyCells

\* spawnFood draws with Math.random(): the set of cells it can return.
spawnFood(body) ==
    LET emptyCells == GridCells \ Occupied(body)
    IN  IF emptyCells = {} THEN {body[1]} ELSE emptyCells

\* snake.slice(0, -1)
DropLast(body) == SubSeq(body, 1, Len(body) - 1)

\* Mutant of NewHead: the head wraps around the edges of the board.
NewHead_wraps(body, dir) ==
    Point((body[1].x + DIRECTION_VECTORS[dir].x + GRID_SIZE) % GRID_SIZE,
          (body[1].y + DIRECTION_VECTORS[dir].y + GRID_SIZE) % GRID_SIZE)

NewHead(body, dir) ==
    Point(body[1].x + DIRECTION_VECTORS[dir].x, body[1].y + DIRECTION_VECTORS[dir].y)

\* Mutant of HitsWall: > instead of >= on the far walls.
HitsWall_offByOne(newHead) ==
    \/ newHead.x < 0
    \/ newHead.y < 0
    \/ newHead.x > GRID_SIZE
    \/ newHead.y > GRID_SIZE

\* Mutant of HitsWall: the near walls are not tested.
HitsWall_missesNearWalls(newHead) ==
    \/ newHead.x >= GRID_SIZE
    \/ newHead.y >= GRID_SIZE

HitsWall(newHead) ==
    \/ newHead.x < 0
    \/ newHead.y < 0
    \/ newHead.x >= GRID_SIZE
    \/ newHead.y >= GRID_SIZE

\* Mutant of BodyToCheck: the check starts behind the neck.
BodyToCheck_skipsNeck(body, ateFood) ==
    IF ateFood THEN SubSeq(body, 3, Len(body)) ELSE SubSeq(body, 3, Len(body) - 1)

\* Mutant of BodyToCheck: the tail is left out even when food is eaten.
BodyToCheck_alwaysDropsTail(body, ateFood) == DropLast(body)

\* const bodyToCheck = ateFood ? snake : snake.slice(0, -1)
BodyToCheck(body, ateFood) == IF ateFood THEN body ELSE DropLast(body)

\* Mutant of NextSnake: the tail is popped even when food was eaten.
NextSnake_alwaysPops(body, newHead, ateFood) == DropLast(<<newHead>> \o body)

\* Mutant of NextSnake: the pop is applied to the old body, not to the new one.
NextSnake_popsOld(body, newHead, ateFood) ==
    IF ateFood THEN <<newHead>> \o body ELSE DropLast(body)

\* nextSnake = [newHead, ...snake], popped unless food was eaten
NextSnake(body, newHead, ateFood) ==
    IF ateFood THEN <<newHead>> \o body ELSE DropLast(<<newHead>> \o body)

\* The set of results stepGame can return (one per possible spawned food).
stepGame(body, dir, foodCell) ==
    LET newHead == NewHead(body, dir)
        ateFood == newHead.x = foodCell.x /\ newHead.y = foodCell.y
        bodyToCheck == BodyToCheck(body, ateFood)
        nextSnake == NextSnake(body, newHead, ateFood)
        over == {[nextSnake |-> body, nextFood |-> foodCell,
                  ateFood |-> FALSE, isGameOver |-> TRUE]}
    IN  IF HitsWall(newHead) THEN over
        ELSE IF \E i \in 1..Len(bodyToCheck) :
                    bodyToCheck[i].x = newHead.x /\ bodyToCheck[i].y = newHead.y
        THEN over
        ELSE {[nextSnake |-> nextSnake, nextFood |-> f,
               ateFood |-> ateFood, isGameOver |-> FALSE] :
                 f \in IF ateFood THEN spawnFood(nextSnake) ELSE {foodCell}}

\* The keys a keydown event is drawn from: the arrows, w/a/d, an upper-case A,
\* space, and a key the game does not know.
Keys == {"ArrowUp", "ArrowRight", "ArrowDown", "ArrowLeft",
         "w", "a", "d", "A", " ", "x"}

\* key.toLowerCase() on Keys
toLowerCase(key) ==
    CASE key = "ArrowUp"    -> "arrowup"
      [] key = "ArrowRight" -> "arrowright"
      [] key = "ArrowDown"  -> "arrowdown"
      [] key = "ArrowLeft"  -> "arrowleft"
      [] key = "A"          -> "a"
      [] OTHER              -> key

resolveDirectionInput(key, currentDirection) ==
    LET k == toLowerCase(key)
    IN  CASE k = "arrowup"    -> "up"
          [] k = "arrowright" -> "right"
          [] k = "arrowdown"  -> "down"
          [] k = "arrowleft"  -> "left"
          [] k = "w"          -> currentDirection
          [] k = "a"          -> LEFT_TURN[currentDirection]
          [] k = "d"          -> RIGHT_TURN[currentDirection]
          [] OTHER            -> null

\* pendingDirectionRef.current ?? directionRef.current
ActiveDirection(pending, committed) == IF pending # null THEN pending ELSE committed

\* Mutant of applyInputDirection: the request is compared with the committed
\* heading even when a heading is pending.
applyInputDirection_committedOnly(requestedDirection, pending, committed) ==
    IF requestedDirection = OPPOSITE_DIRECTION[committed]
    THEN pending
    ELSE requestedDirection

\* The value applyInputDirection leaves in pendingDirectionRef.current.
applyInputDirection(requestedDirection, pending, committed) ==
    IF requestedDirection = OPPOSITE_DIRECTION[ActiveDirection(pending, committed)]
    THEN pending
    ELSE requestedDirection

\* Mutant of getNextTick: the level is multiplied into the base, not the step.
getNextTick_scalesBase(currentScore) ==
    LET level == currentScore \div SPEEDUP_EVERY_POINTS
        a == BASE_TICK_MS * level - SPEEDUP_STEP_MS
    IN  IF MIN_TICK_MS > a THEN MIN_TICK_MS ELSE a

\* Math.max(MIN_TICK_MS, BASE_TICK_MS - level * SPEEDUP_STEP_MS); the score is
\* never negative, so Math.floor of the quotient is the integer quotient.
getNextTick(currentScore) ==
    LET level == currentScore \div SPEEDUP_EVERY_POINTS
        a == BASE_TICK_MS - level * SPEEDUP_STEP_MS
    IN  IF MIN_TICK_MS > a THEN MIN_TICK_MS ELSE a

\* Mutant of BestScoreEffect: the best score follows the score.
BestScoreEffect_followsScore(newScore, best) == newScore

\* The best-score effect, run after a render that changed score or bestScore.
BestScoreEffect(newScore, best) == IF newScore > best THEN newScore ELSE best

----------------------------------------------------------------------------
\* The component

\* The state once the mount effects have run: bestScore holds the integer
\* parsed from localStorage (a score an earlier session wrote), or 0 when
\* nothing is stored or the read fails.
Init ==
    /\ snake = createInitialSnake
    /\ direction = "right"
    /\ food \in spawnFood(createInitialSnake)
    /\ score = 0
    /\ bestScore \in 0..MaxStoredBest
    /\ tickMs = getNextTick(0)
    /\ isStarted = FALSE
    /\ isPaused = FALSE
    /\ isGameOver = FALSE
    /\ directionRef = "right"
    /\ pendingDirectionRef = null

\* Mutant of resetGame: the queued heading is not cleared.
resetGame_keepsPending ==
    /\ snake' = createInitialSnake
    /\ direction' = "right"
    /\ directionRef' = "right"
    /\ UNCHANGED pendingDirectionRef
    /\ food' \in spawnFood(createInitialSnake)
    /\ score' = 0
    /\ isPaused' = FALSE
    /\ isGameOver' = FALSE

\* resetGame(): everything but isStarted and bestScore.
resetGame ==
    /\ snake' = createInitialSnake
    /\ direction' = "right"
    /\ directionRef' = "right"
    /\ pendingDirectionRef' = null
    /\ food' \in spawnFood(createInitialSnake)
    /\ score' = 0
    /\ isPaused' = FALSE
    /\ isGameOver' = FALSE

\* Mutant of TimerArmed: the timer stays armed while paused.
TimerArmed_ignoresPause == ~(~isStarted \/ isGameOver)

\* The tick effect arms its timer unless !isStarted || isPaused || isGameOver.
TimerArmed == ~(~isStarted \/ isPaused \/ isGameOver)

\* The timer callback of the tick effect, and the re-render after it.
TimerCallback ==
    /\ TimerArmed
    /\ LET activeDirection == ActiveDirection(pendingDirectionRef, directionRef)
       IN  \E result \in stepGame(snake, activeDirection, food) :
             /\ pendingDirectionRef' = null
             /\ directionRef' = activeDirection
             /\ direction' = activeDirection
             /\ snake' = result.nextSnake
             /\ food' = result.nextFood
             /\ score' = IF result.ateFood THEN score + 1 ELSE score
             /\ isGameOver' = IF result.isGameOver THEN TRUE ELSE isGameOver
             /\ isPaused' = IF result.isGameOver THEN FALSE ELSE isPaused
             /\ bestScore' = BestScoreEffect(score', bestScore)
             /\ tickMs' = getNextTick(score')
             /\ UNCHANGED isStarted

\* The timer callback, explored while the snake has at most MaxLen cells.
Tick == TimerCallback /\ Len(snake') <= MaxLen

\* Mutant of InputBlocked: headings are queued while paused.
InputBlocked_ignoresPause == ~isStarted \/ isGameOver

\* onKeyDown returns before applyInputDirection in these statuses.
InputBlocked == ~isStarted \/ isPaused \/ isGameOver

\* onKeyDown
KeyDown(key) ==
    IF key = " "
    THEN IF ~isStarted \/ isGameOver
         THEN UNCHANGED vars
         ELSE /\ isPaused' = ~isPaused
              /\ UNCHANGED <<snake, direction, food, score, bestScore, isStarted,
                             isGameOver, directionRef, pendingDirectionRef, tickMs>>
    ELSE LET mapped == resolveDirectionInput(key, directionRef)
         IN  IF mapped = null
             THEN UNCHANGED vars
             ELSE IF InputBlocked
             THEN UNCHANGED vars
             ELSE /\ pendingDirectionRef' =
                        applyInputDirection(mapped, pendingDirectionRef, directionRef)
                  /\ UNCHANGED <<snake, direction, food, score, bestScore, isStarted,
                                 isPaused, isGameOver, directionRef, tickMs>>

\* Start button
StartClick ==
    /\ IF ~isStarted
       THEN resetGame
       ELSE UNCHANGED <<snake, direction, directionRef, pendingDirectionRef,
                        food, score>>
    /\ isStarted' = TRUE
    /\ isPaused' = FALSE
    /\ isGameOver' = FALSE
    /\ bestScore' = BestScoreEffect(score', bestScore)
    /\ tickMs' = getNextTick(score')

\* Mutant of PauseClick: the button is never disabled.
PauseClick_neverDisabled ==
    /\ isPaused' = ~isPaused
    /\ UNCHANGED <<snake, direction, food, score, bestScore, isStarted,
                   isGameOver, directionRef, pendingDirectionRef, tickMs>>

\* Pause / Resume button (disabled unless started and not game over)
PauseClick ==
    /\ isStarted /\ ~isGameOver
    /\ isPaused' = ~isPaused
    /\ UNCHANGED <<snake, direction, food, score, bestScore, isStarted,
                   isGameOver, directionRef, pendingDirectionRef, tickMs>>

\* Restart button
RestartClick ==
    /\ resetGame
    /\ isStarted' = TRUE
    /\ bestScore' = BestScoreEffect(score', bestScore)
    /\ tickMs' = getNextTick(score')

Next ==
    \/ Tick
    \/ \E key \in Keys : KeyDown(key)
    \/ StartClick
    \/ PauseClick
    \/ RestartClick

Spec == Init /\ [][Next]_vars

----------------------------------------------------------------------------
\* stepGame on its own: the timer callback applied to every contiguous
\* duplicate-free body of 3 to MaxLen cells, every food cell of the board (a
\* food cell inside the body is what spawnFood leaves behind on a full board),
\* the committed heading that led the head to where it is, and every queued
\* heading.

Neighbours(cell) ==
    {c \in GridCells : (c.x - cell.x) * (c.x - cell.x) + (c.y - cell.y) * (c.y - cell.y) = 1}

RECURSIVE SnakesOfLen(_)
SnakesOfLen(n) ==
    IF n = 1
    THEN {<<c>> : c \in GridCells}
    ELSE UNION {{Append(p, c) : c \in Neighbours(p[n - 1]) \ Occupied(p)} :
                    p \in SnakesOfLen(n - 1)}

\* The heading that moves the neck onto the head.
HeadingOf(body) ==
    CHOOSE d \in Direction :
        /\ body[2].x + DIRECTION_VECTORS[d].x = body[1].x
        /\ body[2].y + DIRECTION_VECTORS[d].y = body[1].y

InitStep ==
    /\ snake \in UNION {SnakesOfLen(n) : n \in 3..MaxLen}
    /\ food \in GridCells
    /\ directionRef = HeadingOf(snake)
    /\ direction = directionRef
    /\ pendingDirectionRef \in Direction \cup {null}
    /\ score = Len(snake) - 3
    /\ bestScore = score
    /\ tickMs = getNextTick(score)
    /\ isStarted = TRUE
    /\ isPaused = FALSE
    /\ isGameOver = FALSE

NextStep == Tick

SpecStep == InitStep /\ [][NextStep]_vars

----------------------------------------------------------------------------
\* The end of a game on a nearly full board: a running game whose snake covers
\* every cell but one, with the food on the free cell.  (Every contiguous
\* duplicate-free body with the food outside it is reached by play: it is the
\* result of a step from the body that has one cell less at the head and one
\* more at the tail, down to bodies of three cells.)  The timer callback is
\* taken without the MaxLen limit.

InitFull ==
    /\ snake \in SnakesOfLen(GRID_SIZE * GRID_SIZE - 1)
    /\ food \in GridCells \ Occupied(snake)
    /\ directionRef = HeadingOf(snake)
    /\ direction = directionRef
    /\ pendingDirectionRef \in Direction \cup {null}
    /\ score = Len(snake) - 3
    /\ bestScore = score
    /\ tickMs = getNextTick(score)
    /\ isStarted = TRUE
    /\ isPaused = FALSE
    /\ isGameOver = FALSE

NextFull ==
    \/ TimerCallback
    \/ \E key \in Keys : KeyDown(key)

SpecFull == InitFull /\ [][NextFull]_vars

----------------------------------------------------------------------------
\* A game left to itself: from every running state with a body of 3 to MaxLen
\* cells, the food outside it and any queued heading, only the timer fires.
\* While the status is running the tick effect re-arms its timer after every
\* render, so a timer callback that stays enabled is eventually run; the
\* snake grows by at most the cells ahead of it, so the callback is taken
\* without the MaxLen limit.

InitCoast ==
    /\ snake \in UNION {SnakesOfLen(n) : n \in 3..MaxLen}
    /\ food \in GridCells \ Occupied(snake)
    /\ directionRef = HeadingOf(snake)
    /\ direction = directionRef
    /\ pendingDirectionRef \in Direction \cup {null}
    /\ score = Len(snake) - 3
    /\ bestScore = score
    /\ tickMs = getNextTick(score)
    /\ isStarted = TRUE
    /\ isPaused = FALSE
    /\ isGameOver = FALSE

NextCoast == TimerCallback

SpecCoast == InitCoast /\ [][NextCoast]_vars /\ WF_vars(TimerCallback)

----------------------------------------------------------------------------
\* The game played without the arrow keys: the component with keydown events
\* drawn from w / a / d (and A), space and the unknown key only.

RelativeKeys == Keys \ {"ArrowUp", "ArrowRight", "ArrowDown", "ArrowLeft"}

NextRelative ==
    \/ Tick
    \/ \E key \in RelativeKeys : KeyDown(key)
    \/ StartClick
    \/ PauseClick
    \/ RestartClick

SpecRelative == Init /\ [][NextRelative]_vars

----------------------------------------------------------------------------
\* getNextTick on its own: a game just started, and the score update of the
\* timer callback (setScore(prev => prev + 1)) with the render that recomputes
\* tickMs and the best-score effect, repeated up to score MaxScoreArg.

InitSpeed ==
    /\ snake = createInitialSnake
    /\ direction = "right"
    /\ food \in spawnFood(createInitialSnake)
    /\ score = 0
    /\ bestScore \in 0..MaxStoredBest
    /\ tickMs = getNextTick(score)
    /\ isStarted = TRUE
    /\ isPaused = FALSE
    /\ isGameOver = FALSE
    /\ directionRef = "right"
    /\ pendingDirectionRef = null

ScorePoint ==
    /\ TimerArmed
    /\ score < MaxScoreArg
    /\ score' = score + 1
    /\ tickMs' = getNextTick(score')
    /\ bestScore' = BestScoreEffect(score', bestScore)
    /\ UNCHANGED <<snake, direction, food, isStarted, isPaused, isGameOver,
                   directionRef, pendingDirectionRef>>

NextSpeed == ScorePoint

SpecSpeed == InitSpeed /\ [][NextSpeed]_vars

----------------------------------------------------------------------------
\* Vocabulary of the properties

Running == isStarted /\ ~isPaused /\ ~isGameOver

\* Two headings are opposite when their unit vectors cancel.
Reverses(a, b) ==
    /\ DIRECTION_VECTORS[a].x + DIRECTION_VECTORS[b].x = 0
    /\ DIRECTION_VECTORS[a].y + DIRECTION_VECTORS[b].y = 0

NoDuplicates(body) ==
    \A i, j \in 1..Len(body) : i # j => body[i] # body[j]

\* The heading the next tick commits, and the cell it moves the head to.
Heading == IF pendingDirectionRef # null THEN pendingDirectionRef ELSE directionRef

Target == [x |-> snake[1].x + DIRECTION_VECTORS[Heading].x,
           y |-> snake[1].y + DIRECTION_VECTORS[Heading].y]

\* The cell the head would reach by one more step along the committed heading.
Ahead == [x |-> snake[1].x + DIRECTION_VECTORS[directionRef].x,
          y |-> snake[1].y + DIRECTION_VECTORS[directionRef].y]

OnBoard(cell) == cell.x \in 0..(GRID_SIZE - 1) /\ cell.y \in 0..(GRID_SIZE - 1)

InBody(cell, body) == \E i \in 1..Len(body) : body[i] = cell

\* The navigation keys: the arrows and w / a / d in either case.
IsNavigationKey(key) ==
    key \in {"ArrowUp", "ArrowRight", "ArrowDown", "ArrowLeft",
             "w", "a", "d", "W", "A", "D"}

\* A step that calls resetGame.
ResetStep == RestartClick \/ (~isStarted /\ StartClick)

----------------------------------------------------------------------------
\* C1: the heading a tick commits is never the opposite of the heading that
\* was committed before that tick.
C1_NoReversalPerTick ==
    [][Tick => ~Reverses(directionRef', directionRef)]_vars

\* C2: while the status is not game-over the snake body has no duplicate cells.
C2_NoDuplicateCells == ~isGameOver => NoDuplicates(snake)

\* C2 witness: a running 4-cell snake curled into a 2x2 block: its head is
\* next to its tail.
C2_Witness ==
    /\ Running
    /\ Len(snake) = 4
    /\ snake[4] \in Neighbours(snake[1])
    /\ NoDuplicates(snake)

\* C3: a tick whose new head is the food cell and is no collision adds exactly
\* 1 to the score and 1 to the snake length; a tick that does not eat leaves
\* the score unchanged.
C3_EatAddsOne ==
    [][Tick =>
        LET eats == Target = food /\ OnBoard(Target) /\ ~InBody(Target, snake)
        IN  /\ eats => score' = score + 1 /\ Len(snake') = Len(snake) + 1
            /\ ~eats => score' = score
      ]_vars

\* C3 witness: food has been eaten: the score and the length have grown together.
C3_Witness == isStarted /\ score >= 1 /\ Len(snake) = 3 + score

\* C4: the snake has at least 3 cells while running or paused, and a tick never
\* shortens it and never lengthens it by more than 1.
C4_LengthBounds ==
    /\ [](isStarted /\ ~isGameOver => Len(snake) >= 3)
    /\ [][Tick => Len(snake') >= Len(snake) /\ Len(snake') <= Len(snake) + 1]_vars

\* C4 witness: a paused game whose snake has grown.
C4_Witness == isStarted /\ isPaused /\ ~isGameOver /\ Len(snake) > 3

\* C5: a food cell placed at mount, on reset or after eating is on the board and,
\* when the snake it was spawned against leaves a free cell, outside that snake.
C5_FoodPlacedOffSnake ==
    /\ (food \in GridCells /\ ~InBody(food, snake))
    /\ [][(ResetStep \/ (Tick /\ score' = score + 1)) =>
            /\ OnBoard(food')
            /\ Occupied(snake') # GridCells => ~InBody(food', snake')
         ]_vars

\* C5 witness: food has been eaten, so the food on the board was spawned by a tick.
C5_Witness == score >= 1 /\ OnBoard(food) /\ ~InBody(food, snake) /\ ~isGameOver

\* C6: a tick that would move the head off the board reports game over with
\* ateFood false, returns snake and food unchanged, leaves the score unchanged
\* and makes the status game-over.
C6_WallCollision ==
    [][(Tick /\ ~OnBoard(Target)) =>
            /\ \A r \in stepGame(snake, Heading, food) :
                  r.isGameOver /\ ~r.ateFood /\ r.nextSnake = snake /\ r.nextFood = food
            /\ snake' = snake
            /\ food' = food
            /\ score' = score
            /\ isStarted' /\ isGameOver' /\ ~isPaused'
      ]_vars

\* C6 witness: game over with the head at the wall it was heading into.
C6_Witness == isStarted /\ isGameOver /\ ~OnBoard(Ahead)

\* C7: for a new head on the board, a step that does not eat is game over
\* exactly when the new head is a body cell other than the tail; a step that
\* eats is game over exactly when the new head is any body cell, the tail
\* included; moving into the tail cell without eating leaves a duplicate-free
\* body; game over returns snake and food unchanged.
C7_SelfCollision ==
    [][(Tick /\ OnBoard(Target)) =>
            LET eats == Target = food
                n == Len(snake)
            IN  /\ ~eats => (isGameOver' <=> \E i \in 1..(n - 1) : snake[i] = Target)
                /\ eats => (isGameOver' <=> \E i \in 1..n : snake[i] = Target)
                /\ (~eats /\ Target = snake[n]) =>
                        snake'[1] = Target /\ NoDuplicates(snake')
                /\ isGameOver' => snake' = snake /\ food' = food
      ]_vars

\* C7 witness: game over after heading into the tail cell while the food was on it.
C7_Witness ==
    /\ isGameOver
    /\ OnBoard(Ahead)
    /\ Ahead = food
    /\ Ahead = snake[Len(snake)]

\* C8: a requested heading is dropped exactly when it reverses the pending
\* heading if there is one, else the committed heading; any other requested
\* heading becomes the pending heading, whatever was pending before.  (In every
\* running state, for every navigation key, that is the value
\* applyInputDirection computes and the only one a keydown step can leave.)
C8_QueueRule ==
    \A key \in Keys :
        LET requested == resolveDirectionInput(key, directionRef)
            expected == IF Reverses(requested, Heading)
                        THEN pendingDirectionRef
                        ELSE requested
        IN  (Running /\ requested # null) =>
              /\ applyInputDirection(requested, pendingDirectionRef, directionRef) = expected
              /\ ENABLED KeyDown(key)
              /\ ~ENABLED (KeyDown(key) /\ pendingDirectionRef' # expected)

\* C8 witness: a queued heading that differs from the committed one.
C8_Witness ==
    Running /\ pendingDirectionRef # null /\ pendingDirectionRef # directionRef

\* C9: while paused, not started or game over no tick happens: snake, food,
\* score and committed heading change only by a reset of Start or Restart, and
\* the pause toggle leaves them (and the queued heading) as they were.
C9_NoTickUnlessRunning ==
    [][~Running =>
          \/ UNCHANGED <<snake, food, score, directionRef, pendingDirectionRef>>
          \/ /\ ResetStep
             /\ snake' = createInitialSnake
             /\ score' = 0
             /\ directionRef' = "right"
      ]_vars

\* C9 witness: a game paused after food was eaten.
C9_Witness == isStarted /\ isPaused /\ score >= 1 /\ snake # createInitialSnake

\* C10: a key event never changes snake, food, score or committed heading; a
\* navigation key changes at most the pending heading, and only while running;
\* an unrecognised key changes nothing.  (No keydown step that does otherwise
\* is possible in any reachable state.)
C10_KeysOnlyQueue ==
    \A key \in Keys :
        ~ENABLED (/\ KeyDown(key)
                  /\ ~(/\ UNCHANGED <<snake, food, score, directionRef, direction>>
                       /\ key # " " =>
                             /\ UNCHANGED <<bestScore, isStarted, isPaused, isGameOver>>
                             /\ ~Running => UNCHANGED pendingDirectionRef
                       /\ (key # " " /\ ~IsNavigationKey(key)) => UNCHANGED vars))

\* C10 witness: a heading is queued while the snake is still where a reset put it.
C10_Witness ==
    /\ Running
    /\ pendingDirectionRef # null
    /\ snake = createInitialSnake
    /\ score = 0

----------------------------------------------------------------------------
\* C11: from every reachable state, whatever the status, Restart can be
\* clicked, and every outcome of it is the three-cell snake at the centre of
\* the grid, committed heading right, nothing queued, score 0, food on a
\* board cell outside that snake, and the status running.
C11_RestartResets ==
    /\ ENABLED RestartClick
    /\ ~ENABLED (RestartClick /\ ~(
            LET c == GRID_SIZE \div 2
            IN  /\ snake' = <<Point(c, c), Point(c - 1, c), Point(c - 2, c)>>
                /\ directionRef' = "right"
                /\ direction' = "right"
                /\ pendingDirectionRef' = null
                /\ score' = 0
                /\ OnBoard(food')
                /\ ~InBody(food', snake')
                /\ isStarted' /\ ~isPaused' /\ ~isGameOver'))

\* A game restarted after a point was scored, before its first tick.
C11_Witness ==
    /\ Running
    /\ bestScore > MaxStoredBest
    /\ score = 0
    /\ snake = createInitialSnake
    /\ directionRef = "right"
    /\ pendingDirectionRef = null

----------------------------------------------------------------------------
\* C12: in every reachable state every cell of the snake is on the board and
\* each cell of the snake is one orthogonal step away from the next one.
C12_OnBoardAndContiguous ==
    /\ \A i \in 1..Len(snake) : OnBoard(snake[i])
    /\ \A i \in 1..(Len(snake) - 1) :
          \/ snake[i].x = snake[i + 1].x /\ snake[i].y - snake[i + 1].y \in {-1, 1}
          \/ snake[i].y = snake[i + 1].y /\ snake[i].x - snake[i + 1].x \in {-1, 1}

\* A bent snake of full explored length with its head in a corner.
C12_Witness ==
    /\ Len(snake) = MaxLen
    /\ snake[1] = Point(0, 0)
    /\ snake[1].x # snake[3].x /\ snake[1].y # snake[3].y

----------------------------------------------------------------------------
\* C13: the tick interval lies between MIN_TICK_MS (80) and BASE_TICK_MS
\* (150), the interval of a score is at most the interval of every smaller
\* score, scoring a point never lengthens the interval, and score 12 gives
\* 134 ms.
C13_TickIntervalMonotone ==
    /\ [](/\ tickMs >= 80 /\ tickMs <= 150
          /\ \A s \in 0..score : tickMs <= getNextTick(s)
          /\ score = 12 => tickMs = 134)
    /\ [][score' >= score => tickMs' <= tickMs]_vars

\* A score past the one at which the interval reaches its floor.
C13_Witness == score > 12 /\ tickMs = MIN_TICK_MS /\ getNextTick(score - 1) = MIN_TICK_MS

----------------------------------------------------------------------------
\* C14: no step (tick, key, Start, Pause, Restart) lowers the best score, and
\* once the best-score effect has run after a change of the score the best
\* score is at least the score.
C14_BestScoreNeverDecreases ==
    /\ [](bestScore >= score)
    /\ [][bestScore' >= bestScore]_vars

\* A game restarted after the best score was beaten, with a point scored since.
C14_Witness ==
    /\ isStarted
    /\ score >= 1
    /\ bestScore > score
    /\ bestScore > MaxStoredBest

----------------------------------------------------------------------------
\* C15: when a tick eats the food and the grown snake covers every cell of
\* the grid, the new food is the cell of the snake's own head, and the step
\* is not a game over: the status stays running.
C15_FullBoardFoodOnHead ==
    [][(TimerCallback /\ score' = score + 1 /\ Occupied(snake') = GridCells) =>
          /\ \A r \in stepGame(snake, Heading, food) :
                ~r.isGameOver /\ r.ateFood /\ r.nextFood = r.nextSnake[1]
          /\ snake'[1] = Target
          /\ food' = snake'[1]
          /\ isStarted' /\ ~isPaused' /\ ~isGameOver']_vars

\* The board just filled: the food lies under the head of a running game.
C15_Witness ==
    /\ Running
    /\ Occupied(snake) = GridCells
    /\ NoDuplicates(snake)
    /\ food = snake[1]

----------------------------------------------------------------------------
\* C16: a step taken from a game-over state either leaves the game over with
\* the snake, the food and the score as they are, or resets the snake, the
\* score and the headings to their initial values; no step leaves game over
\* with the collided snake and the accumulated score.
C16_GameOverIsFinal ==
    [][isGameOver =>
          \/ isGameOver' /\ UNCHANGED <<snake, food, score>>
          \/ /\ snake' = createInitialSnake
             /\ score' = 0
             /\ directionRef' = "right"
             /\ pendingDirectionRef' = null]_vars

----------------------------------------------------------------------------
\* C17: in every reachable state in which the snake does not cover the whole
\* grid, the food is on the board and is not a cell of the snake.
C17_FoodOffSnake ==
    Occupied(snake) # GridCells => (OnBoard(food) /\ \A i \in 1..Len(snake) : snake[i] # food)

\* A snake of full explored length with the food next to its head.
C17_Witness ==
    /\ Len(snake) = MaxLen
    /\ Occupied(snake) # GridCells
    /\ food \in Neighbours(snake[1]) \ Occupied(snake)

----------------------------------------------------------------------------
\* C18: paused and game over are never both true, paused or game over implies
\* started, and in the not-started and game-over statuses the Pause button
\* cannot be clicked and the space key changes nothing.
C18_StatusFlagsConsistent ==
    /\ ~(isPaused /\ isGameOver)
    /\ (isPaused \/ isGameOver) => isStarted
    /\ (~isStarted \/ isGameOver) =>
          /\ ~ENABLED PauseClick
          /\ ~ENABLED (KeyDown(" ") /\ ~UNCHANGED vars)

\* A lost game with a point scored, in which the space key can be pressed.
C18_Witness ==
    /\ isStarted /\ isGameOver /\ ~isPaused
    /\ score >= 1
    /\ ENABLED KeyDown(" ")

----------------------------------------------------------------------------
\* C19: a running game in which nothing but the timer fires (no pause, no
\* restart, no key) eventually reaches game over, ticks being scheduled
\* fairly.
C19_CoastingEndsInGameOver == <>isGameOver

\* A snake that ate the food ahead of it while coasting and then hit the wall.
C19_Witness ==
    /\ isGameOver
    /\ Len(snake) > MaxLen
    /\ ~OnBoard(Ahead)

----------------------------------------------------------------------------
\* C20: when only w / a / d are used, every heading these keys resolve to and
\* every queued heading is the committed heading or a quarter turn from it,
\* never its opposite, and so the heading a tick commits is never the
\* opposite of the heading committed before it.
C20_RelativeKeysNeverReverse ==
    /\ [](/\ \A key \in {"w", "a", "d", "A"} :
                LET requested == resolveDirectionInput(key, directionRef)
                IN  requested \in Direction /\ ~Reverses(requested, directionRef)
          /\ pendingDirectionRef # null => ~Reverses(pendingDirectionRef, directionRef))
    /\ [][Tick => (directionRef' \in Direction /\ ~Reverses(directionRef', directionRef))]_vars

\* Two turns were pressed between ticks and the second one is queued.
C20_Witness ==
    /\ Running
    /\ directionRef = "up"
    /\ pendingDirectionRef = "left"
    /\ snake[1].x = snake[2].x

====
